---- MODULE Spec2Model ----
(***************************************************************************)
(* Model of backend/routes/collections.py: the collection membership       *)
(* endpoints (add-companies, toggle-company, like/unlike-companies and     *)
(* their streaming variants) as request processes over one shared          *)
(* association table.  Every database statement a handler issues is one    *)
(* step of its request, so that concurrent requests interleave between a   *)
(* handler's reads and its commits.                                        *)
(***************************************************************************)
EXTENDS Integers, Sequences, FiniteSets, TLC

\* ---------------------------------------------------------------- bounds
NumCompanies == 2        \* companies 1..NumCompanies exist in the directory
MaxLen == 3              \* longest company_ids list of a single client
MaxLenConc == 1          \* longest company_ids list of concurrent clients
NumProcs == 2            \* requests in flight at the same time

Companies == 1 .. NumCompanies
MissingId == NumCompanies + 1          \* an id no company has
AllIds == 1 .. MissingId
Procs == 1 .. NumProcs

MyList == "My List"
Liked == "Liked Companies List"
Ghost == "no such collection"          \* a uuid no collection has
CollIds == {MyList, Liked, Ghost}

SyncOps == {"add", "like", "unlike", "toggle"}
StreamOps == {"add_stream", "like_stream", "unlike_stream"}
\* the endpoints that only read: one page of a collection's members, and
\* all of its company ids
ReadOps == {"list", "ids"}
Ops == SyncOps \cup StreamOps \cup ReadOps
AddOps == {"add", "add_stream"}
LikeOps == {"like", "like_stream"}
UnlikeOps == {"unlike", "unlike_stream"}
\* operations whose loop commits after every id
PerItemOps == {"add", "add_stream", "like_stream", "unlike_stream"}

Requests(n) == UNION {[1 .. k -> AllIds] : k \in 0 .. n}
RequestsAlone == Requests(MaxLen)
RequestsConc == Requests(MaxLenConc)

\* what a client can send to endpoint o: the path's collection id and the body
TargetsOf(o) == IF o \in LikeOps \cup UnlikeOps THEN {Liked} ELSE CollIds
BodiesOf(o, R) == IF o = "toggle" THEN {r \in R : Len(r) = 1}
                  ELSE IF o \in ReadOps THEN {<<>>} ELSE R

\* defaults of the query parameters offset and limit of the members page
DefaultOffset == 0
DefaultLimit == 10

VARIABLES
    collections,  \* ids of the collections that exist (seed data)
    rows,         \* committed association rows: <<collection, company>> -> count
    pc,           \* position of each request
    op,           \* endpoint the request calls
    coll,         \* collection the request writes to
    ids,          \* request.company_ids (toggle: the one company_id)
    existing,     \* existing_company_ids / currently_liked_ids / existing_association
    todo,         \* rest of sorted_company_ids still to be processed
    pending,      \* session changes not yet committed (bulk like / unlike)
    newly,        \* newly_added / newly_liked / newly_unliked
    processed,    \* ids the loop has finished
    events,       \* events the stream has yielded
    resp,         \* the response
    pre,          \* history: rows when the request began
    touched,      \* history: company ids whose row this request changed
    raced,        \* history: ids the per-id re-check found changed meanwhile
    prev          \* history: the call before, when this one repeats its arguments

vars == <<collections, rows, pc, op, coll, ids, existing, todo, pending, newly,
          processed, events, resp, pre, touched, raced, prev>>

\* ------------------------------------------------------- pure functions
\* set(request.company_ids)
SetOf(s) == {s[i] : i \in 1 .. Len(s)}

Min(S) == CHOOSE x \in S : \A y \in S : x <= y

\* (mutant) descending numeric order
RECURSIVE sorted_descending(_)
sorted_descending(S) ==
    IF S = {} THEN <<>>
    ELSE LET m == CHOOSE x \in S : \A y \in S : y <= x
         IN <<m>> \o sorted_descending(S \ {m})

\* sorted(S): ascending numeric order
RECURSIVE sorted(_)
sorted(S) == IF S = {} THEN <<>> ELSE <<Min(S)>> \o sorted(S \ {Min(S)})

\* db.query(Company).filter(Company.id.in_(company_ids)).all(), as ids
companies_found(r) == {k \in Companies : k \in SetOf(r)}

\* (mutant) the existence check of the companies left out
companies_never_missing(r) == FALSE

\* len(companies) != len(request.company_ids)
companies_missing(r) == Cardinality(companies_found(r)) # Len(r)

\* the association rows of collection c whose company is in S, as company ids
associations_in(c, S) == {k \in S : rows[<<c, k>>] > 0}

\* the number of rows of table t for collection c and the companies S
RECURSIVE row_sum(_, _, _)
row_sum(t, c, S) == IF S = {} THEN 0
                    ELSE t[<<c, Min(S)>>] + row_sum(t, c, S \ {Min(S)})

\* (mutant) the count query without its filter on the collection
count_all_rows(c) == row_sum(rows, MyList, AllIds) + row_sum(rows, Liked, AllIds)

\* .filter(collection_id == c).count(): the number of rows, not of companies

count_rows(c) == row_sum(rows, c, AllIds)

\* members of collection c
members(c) == {k \in AllIds : rows[<<c, k>>] > 0}

NoResp == [status |-> "none", changed |-> 0, already |-> 0, total |-> 0,
           requested |-> 0, flag |-> FALSE, companies |-> <<>>]
NoPrev == [op |-> "none", resp |-> NoResp, pre |-> <<>>]

Event(t, p, n) == [type |-> t, processed |-> p, newly |-> n]

EmptyTable == [x \in CollIds \X AllIds |-> 0]

Init ==
    /\ collections \in {{MyList, Liked}, {MyList}, {Liked}}
    /\ rows = EmptyTable
    /\ pc = [p \in Procs |-> "idle"]
    /\ op = [p \in Procs |-> "none"]
    /\ coll = [p \in Procs |-> Ghost]
    /\ ids = [p \in Procs |-> <<>>]
    /\ existing = [p \in Procs |-> {}]
    /\ todo = [p \in Procs |-> <<>>]
    /\ pending = [p \in Procs |-> {}]
    /\ newly = [p \in Procs |-> 0]
    /\ processed = [p \in Procs |-> 0]
    /\ events = [p \in Procs |-> <<>>]
    /\ resp = [p \in Procs |-> NoResp]
    /\ pre = [p \in Procs |-> EmptyTable]
    /\ touched = [p \in Procs |-> {}]
    /\ raced = [p \in Procs |-> {}]
    /\ prev = [p \in Procs |-> NoPrev]

\* ------------------------------------------------------------- requests
\* A client calls endpoint o with path parameter c and body r.
Request(p, o, c, r) ==
    /\ pc[p] = "idle"
    /\ o \in Ops
    /\ c \in TargetsOf(o)
    /\ o = "toggle" => Len(r) = 1
    /\ o \in ReadOps => r = <<>>
    /\ pc' = [pc EXCEPT ![p] = "check"]
    /\ op' = [op EXCEPT ![p] = o]
    /\ coll' = [coll EXCEPT ![p] = c]
    /\ ids' = [ids EXCEPT ![p] = r]
    /\ UNCHANGED <<collections, rows, existing, todo, pending, newly, processed,
                   events, resp, touched, raced, prev>>

\* One of several concurrent clients calls.
Begin(p, o, c, r) ==
    /\ Request(p, o, c, r)
    /\ UNCHANGED pre

\* The single client calls; the table as it is before the call is recorded.
BeginAlone(p, o, c, r) ==
    /\ Request(p, o, c, r)
    /\ pre' = [pre EXCEPT ![p] = rows]

\* The client follows a finished call with a call on the same arguments:
\* the same endpoint again, or unlike after like.
BeginAgain(p, o) ==
    /\ pc[p] = "done"
    /\ prev[p] = NoPrev
    /\ \/ o = op[p] /\ o \in {"add", "toggle"}
       \/ op[p] = "like" /\ o = "unlike"
    /\ pc' = [pc EXCEPT ![p] = "check"]
    /\ op' = [op EXCEPT ![p] = o]
    /\ existing' = [existing EXCEPT ![p] = {}]
    /\ todo' = [todo EXCEPT ![p] = <<>>]
    /\ pending' = [pending EXCEPT ![p] = {}]
    /\ newly' = [newly EXCEPT ![p] = 0]
    /\ processed' = [processed EXCEPT ![p] = 0]
    /\ events' = [events EXCEPT ![p] = <<>>]
    /\ resp' = [resp EXCEPT ![p] = NoResp]
    /\ pre' = [pre EXCEPT ![p] = rows]
    /\ touched' = [touched EXCEPT ![p] = {}]
    /\ raced' = [raced EXCEPT ![p] = {}]
    /\ prev' = [prev EXCEPT ![p] = [op |-> op[p], resp |-> resp[p], pre |-> pre[p]]]
    /\ UNCHANGED <<collections, rows, coll, ids>>

\* raise HTTPException(status_code=404, ...)
NotFound(p) ==
    /\ pc' = [pc EXCEPT ![p] = "done"]
    /\ resp' = [resp EXCEPT ![p] = [NoResp EXCEPT !.status = "notfound"]]
    /\ UNCHANGED <<existing, todo>>

\* The handler's queries before its first write.  Collections and companies
\* are read-only here, so the existence checks and the batched association
\* query read one consistent state.

\* new_company_ids = set(request.company_ids) - existing_company_ids
new_company_ids(r, ex) == SetOf(r) \ ex

\* add_companies_to_collection / add_companies_to_collection_stream, up to the
\* early return or the loop
add_check(p) ==
    /\ pc[p] = "check"
    /\ op[p] \in AddOps
    /\ IF coll[p] \notin collections \/ companies_missing(ids[p])
       THEN NotFound(p)
       ELSE LET ex == associations_in(coll[p], SetOf(ids[p]))
                new == new_company_ids(ids[p], ex)
            IN /\ existing' = [existing EXCEPT ![p] = ex]
               /\ todo' = [todo EXCEPT ![p] = sorted(new)]
               /\ resp' = resp
               /\ pc' = [pc EXCEPT ![p] =
                            IF op[p] = "add_stream" THEN "gen"
                            ELSE IF new = {} THEN "count" ELSE "loop"]
    /\ UNCHANGED <<collections, rows, op, coll, ids, pending, newly, processed,
                   events, pre, touched, raced, prev>>

\* companies_to_like = set(request.company_ids) - currently_liked_ids
companies_to_like(r, liked) == SetOf(r) \ liked

\* (mutant) unlike removes only what the like before it would have added
companies_to_unlike_none(r, liked) == {}

\* companies_to_unlike = currently_liked_ids & set(request.company_ids)
companies_to_unlike(r, liked) == liked \cap SetOf(r)

\* like_companies_bulk / unlike_companies_bulk and their streams, up to the loop
like_check(p) ==
    /\ pc[p] = "check"
    /\ op[p] \in LikeOps \cup UnlikeOps
    /\ IF MyList \notin collections \/ Liked \notin collections
          \/ companies_missing(ids[p])
       THEN NotFound(p)
       ELSE LET liked == associations_in(Liked, SetOf(ids[p]))
                work == IF op[p] \in LikeOps
                        THEN companies_to_like(ids[p], liked)
                        ELSE companies_to_unlike(ids[p], liked)
            IN /\ existing' = [existing EXCEPT ![p] = liked]
               /\ todo' = [todo EXCEPT ![p] = sorted(work)]
               /\ resp' = resp
               /\ pc' = [pc EXCEPT ![p] =
                            IF op[p] \in StreamOps THEN "gen"
                            ELSE IF op[p] = "like" \/ work = {} THEN "commit"
                            ELSE "loop"]
    /\ UNCHANGED <<collections, rows, op, coll, ids, pending, newly, processed,
                   events, pre, touched, raced, prev>>

\* toggle_company_in_collection, up to the delete or add
toggle_check(p) ==
    /\ pc[p] = "check"
    /\ op[p] = "toggle"
    /\ IF coll[p] \notin collections \/ ids[p][1] \notin Companies
       THEN NotFound(p)
       ELSE /\ existing' = [existing EXCEPT ![p] =
                               associations_in(coll[p], {ids[p][1]})]
            /\ todo' = [todo EXCEPT ![p] = ids[p]]
            /\ resp' = resp
            /\ pc' = [pc EXCEPT ![p] = "commit"]
    /\ UNCHANGED <<collections, rows, op, coll, ids, pending, newly, processed,
                   events, pre, touched, raced, prev>>

\* ------------------------------------------------------- the association table
\* (mutant) the added rows are never committed
insert_rows_lost(c, S) == rows

\* (mutant) the deleted rows are never committed
delete_rows_lost(c, S) == rows

\* (mutant) the new rows are written without the collection filter
insert_rows_any_collection(c, S) ==
    [x \in DOMAIN rows |-> IF x[2] \in S THEN rows[x] + 1 ELSE rows[x]]

\* db.add(CompanyCollectionAssociation(company_id=k, collection_id=c)), committed
insert_rows(c, S) == [x \in DOMAIN rows |->
                        IF x[1] = c /\ x[2] \in S THEN rows[x] + 1 ELSE rows[x]]

\* db.delete(association), committed; a row already gone deletes nothing
delete_rows(c, S) == [x \in DOMAIN rows |->
                        IF x[1] = c /\ x[2] \in S /\ rows[x] > 0
                        THEN rows[x] - 1 ELSE rows[x]]

\* (mutant) a table without the uniqueness constraint
no_unique_constraint(c, S) == FALSE

\* The table's uniqueness constraint on (collection, company): a commit that
\* would insert a second row for a pair fails.
unique_violation(c, S) == \E k \in S : rows[<<c, k>>] > 0

IsStream(p) == op[p] \in StreamOps
Inserting(p) == op[p] \in AddOps \cup LikeOps \cup
                  (IF op[p] = "toggle" /\ existing[p] = {} THEN {"toggle"} ELSE {})

\* ---------------------------------------------------------------- the loops
\* End of one iteration: the id is done, the stream yields its progress event
\* (n is the counter of changes after this id), and the loop goes on or ends.
Advance(p, n) ==
    /\ processed' = [processed EXCEPT ![p] = @ + 1]
    /\ todo' = [todo EXCEPT ![p] = Tail(@)]
    /\ events' = [events EXCEPT ![p] =
                    IF IsStream(p)
                    THEN Append(@, Event("progress", processed[p] + 1, n))
                    ELSE @]
    /\ pc' = [pc EXCEPT ![p] =
                IF Tail(todo[p]) # <<>> THEN "loop"
                ELSE IF IsStream(p) THEN "complete"
                ELSE IF op[p] = "unlike" THEN "commit"
                ELSE "count"]

\* (mutant) the except clause yields the error event and the loop goes on
\* with the next id instead of returning
FailAndContinue(p) ==
    /\ pc' = [pc EXCEPT ![p] =
                IF ~IsStream(p) THEN "done"
                ELSE IF Tail(todo[p]) # <<>> THEN "loop" ELSE "complete"]
    /\ events' = [events EXCEPT ![p] =
                    IF IsStream(p)
                    THEN Append(@, Event("error", processed[p], newly[p]))
                    ELSE @]
    /\ resp' = [resp EXCEPT ![p] =
                  IF IsStream(p) THEN @ ELSE [NoResp EXCEPT !.status = "error"]]
    /\ todo' = [todo EXCEPT ![p] = IF IsStream(p) THEN Tail(@) ELSE @]
    /\ UNCHANGED <<rows, touched, processed, newly>>

\* (mutant) the failure rolls the request's earlier commits back
FailAndRollBack(p) ==
    /\ pc' = [pc EXCEPT ![p] = "done"]
    /\ events' = [events EXCEPT ![p] =
                    IF IsStream(p)
                    THEN Append(@, Event("error", processed[p], newly[p]))
                    ELSE @]
    /\ resp' = [resp EXCEPT ![p] =
                  IF IsStream(p) THEN @ ELSE [NoResp EXCEPT !.status = "error"]]
    /\ rows' = delete_rows(coll[p], touched[p])
    /\ UNCHANGED <<touched, todo, processed, newly>>

\* The exception of a failed statement: the stream's except clause yields an
\* error event and returns; the synchronous handler lets it propagate.
Fail(p) ==
    /\ pc' = [pc EXCEPT ![p] = "done"]
    /\ events' = [events EXCEPT ![p] =
                    IF IsStream(p)
                    THEN Append(@, Event("error", processed[p], newly[p]))
                    ELSE @]
    /\ resp' = [resp EXCEPT ![p] =
                  IF IsStream(p) THEN @ ELSE [NoResp EXCEPT !.status = "error"]]
    /\ UNCHANGED <<rows, touched, todo, processed, newly>>

\* The per-id query of the loop: .filter(collection_id == ..., company_id ==
\* company_id).first(), and what the iteration does without writing.
\* ok = FALSE is an internal failure of the query.
loop_query(p, ok) ==
    /\ pc[p] = "loop"
    /\ LET k == Head(todo[p])
           present == rows[<<coll[p], k>>] > 0
       IN IF ~ok
          THEN Fail(p) /\ UNCHANGED <<pending, raced>>
          ELSE IF op[p] = "unlike"
          THEN \* db.delete(existing_association) stays pending until the commit
               /\ pending' = [pending EXCEPT ![p] =
                                IF present THEN @ \cup {k} ELSE @]
               /\ newly' = [newly EXCEPT ![p] = IF present THEN @ + 1 ELSE @]
               /\ raced' = [raced EXCEPT ![p] =
                              IF present THEN @ ELSE @ \cup {k}]
               /\ Advance(p, newly[p])
               /\ resp' = resp
          ELSE IF present = (op[p] = "unlike_stream")
          THEN \* the row is still as the batched query saw it: go and write
               /\ pc' = [pc EXCEPT ![p] = "write"]
               /\ UNCHANGED <<pending, newly, raced, processed, todo, events, resp>>
          ELSE \* another request changed it meanwhile: nothing to do
               /\ raced' = [raced EXCEPT ![p] = @ \cup {k}]
               /\ Advance(p, newly[p])
               /\ UNCHANGED <<pending, newly, resp>>
    /\ UNCHANGED <<collections, rows, op, coll, ids, existing, pre, touched, prev>>

\* The per-id write of the loop: db.add / db.delete, db.commit(), the counter,
\* and the progress event.  ok = FALSE is an internal failure of the commit.
loop_commit(p, ok) ==
    /\ pc[p] = "write"
    /\ LET k == Head(todo[p])
           changes == Inserting(p) \/ rows[<<coll[p], k>>] > 0
       IN IF ok /\ ~(Inserting(p) /\ unique_violation(coll[p], {k}))
          THEN /\ rows' = IF Inserting(p) THEN insert_rows(coll[p], {k})
                                           ELSE delete_rows(coll[p], {k})
               /\ newly' = [newly EXCEPT ![p] = @ + 1]
               /\ touched' = [touched EXCEPT ![p] =
                                IF changes THEN @ \cup {k} ELSE @]
               /\ Advance(p, newly[p] + 1)
               /\ resp' = resp
          ELSE Fail(p)
    /\ UNCHANGED <<collections, op, coll, ids, existing, pending, pre, raced, prev>>

\* ---------------------------------------------------- one commit per request
\* (mutant) each id of the loop is committed on its own, so that a failure
\* at the last one leaves the ids before it persisted
batch_commit_per_item(p, ok) ==
    /\ pc[p] = "commit"
    /\ LET S == IF op[p] = "unlike" THEN pending[p] ELSE SetOf(todo[p])
           changed == IF Inserting(p) THEN S
                      ELSE {k \in S : rows[<<coll[p], k>>] > 0}
           first == SetOf(SubSeq(sorted(S), 1, Cardinality(S) - 1))
       IN /\ newly' = [newly EXCEPT ![p] = IF op[p] = "like" THEN Len(todo[p]) ELSE @]
          /\ IF ok /\ ~(Inserting(p) /\ unique_violation(coll[p], S))
             THEN /\ rows' = IF Inserting(p) THEN insert_rows(coll[p], S)
                                              ELSE delete_rows(coll[p], S)
                  /\ touched' = [touched EXCEPT ![p] = changed]
                  /\ pc' = [pc EXCEPT ![p] =
                               IF op[p] = "toggle" THEN "done" ELSE "count"]
                  /\ resp' = [resp EXCEPT ![p] =
                                 IF op[p] = "toggle"
                                 THEN [NoResp EXCEPT !.status = "ok",
                                                     !.flag = (existing[p] = {})]
                                 ELSE @]
             ELSE /\ pc' = [pc EXCEPT ![p] = "done"]
                  /\ resp' = [resp EXCEPT ![p] = [NoResp EXCEPT !.status = "error"]]
                  /\ rows' = IF Inserting(p) THEN insert_rows(coll[p], first)
                                              ELSE delete_rows(coll[p], first)
                  /\ touched' = [touched EXCEPT ![p] = changed \cap first]
    /\ UNCHANGED <<collections, op, coll, ids, existing, todo, pending,
                   processed, events, pre, raced, prev>>

\* like_companies_bulk adds every id of the loop to the session and commits
\* once after it; unlike_companies_bulk commits its pending deletes once;
\* toggle_company_in_collection deletes or adds its one row and commits.
\* A failed commit persists nothing of the transaction.
batch_commit(p, ok) ==
    /\ pc[p] = "commit"
    /\ LET S == IF op[p] = "unlike" THEN pending[p] ELSE SetOf(todo[p])
           changed == IF Inserting(p) THEN S
                      ELSE {k \in S : rows[<<coll[p], k>>] > 0}
       IN /\ newly' = [newly EXCEPT ![p] = IF op[p] = "like" THEN Len(todo[p]) ELSE @]
          /\ IF ok /\ ~(Inserting(p) /\ unique_violation(coll[p], S))
             THEN /\ rows' = IF Inserting(p) THEN insert_rows(coll[p], S)
                                              ELSE delete_rows(coll[p], S)
                  /\ touched' = [touched EXCEPT ![p] = changed]
                  /\ pc' = [pc EXCEPT ![p] =
                               IF op[p] = "toggle" THEN "done" ELSE "count"]
                  /\ resp' = [resp EXCEPT ![p] =
                                 IF op[p] = "toggle"
                                 THEN [NoResp EXCEPT !.status = "ok",
                                                     !.flag = (existing[p] = {})]
                                 ELSE @]
             ELSE /\ pc' = [pc EXCEPT ![p] = "done"]
                  /\ resp' = [resp EXCEPT ![p] = [NoResp EXCEPT !.status = "error"]]
                  /\ UNCHANGED <<rows, touched>>
    /\ UNCHANGED <<collections, op, coll, ids, existing, todo, pending,
                   processed, events, pre, raced, prev>>

\* (mutant) every return reports the whole request as already there
already_count_len(p) == Len(ids[p])

\* "already_existed" / "already_liked" / "already_unliked" of the response
already_count(p) ==
    IF op[p] = "add"
    THEN IF new_company_ids(ids[p], existing[p]) = {}
         THEN Len(ids[p])                       \* the early return
         ELSE Cardinality(existing[p])          \* the return after the loop
    ELSE IF op[p] = "like"
    THEN Cardinality(existing[p] \cap SetOf(ids[p]))
    ELSE Cardinality(SetOf(ids[p]) \ existing[p])

\* The count query after the loop (or of the early return) and the response.
count(p) ==
    /\ pc[p] = "count"
    /\ resp' = [resp EXCEPT ![p] =
                  [status |-> "ok", changed |-> newly[p],
                   already |-> already_count(p),
                   total |-> count_rows(coll[p]),
                   requested |-> Len(ids[p]), flag |-> FALSE,
                   companies |-> <<>>]]
    /\ pc' = [pc EXCEPT ![p] = "done"]
    /\ UNCHANGED <<collections, rows, op, coll, ids, existing, todo, pending,
                   newly, processed, events, pre, touched, raced, prev>>

\* ---------------------------------------------------------- the read-only
\* query.offset(offset).limit(limit) of a list
page(s, offset, limit) ==
    SubSeq(s, offset + 1, Min({Len(s), offset + limit}))

\* GET /collections/{collection_id}, first statement: total_count, the count
\* of the collection's rows as committed now, kept for the response.
get_company_collection_by_id_count(p) ==
    /\ pc[p] = "check" /\ op[p] = "list"
    /\ resp' = [resp EXCEPT ![p] = [NoResp EXCEPT !.total = count_rows(coll[p])]]
    /\ pc' = [pc EXCEPT ![p] = "page"]
    /\ UNCHANGED <<collections, rows, op, coll, ids, existing, todo, pending,
                   newly, processed, events, pre, touched, raced, prev>>

\* GET /collections/{collection_id}, the rest: the page of members in
\* ascending company id, read from the rows as committed now (another request
\* may have committed since the count), then the collection's name read from
\* the result of .get(collection_id). For a collection that does not exist
\* .get returns None and the attribute access raises AttributeError: the
\* request ends with an internal error.
get_company_collection_by_id(p) ==
    /\ pc[p] = "page" /\ op[p] = "list"
    /\ resp' = [resp EXCEPT ![p] =
                  IF coll[p] \in collections
                  THEN [@ EXCEPT !.status = "ok",
                                 !.companies = page(sorted(members(coll[p]) \cap Companies),
                                                    DefaultOffset, DefaultLimit)]
                  ELSE [NoResp EXCEPT !.status = "error"]]
    /\ pc' = [pc EXCEPT ![p] = "done"]
    /\ UNCHANGED <<collections, rows, op, coll, ids, existing, todo, pending,
                   newly, processed, events, pre, touched, raced, prev>>

\* GET /collections/{collection_id}/company-ids: 404 for a collection that
\* does not exist, else all its company ids in ascending order.
get_collection_company_ids(p) ==
    /\ pc[p] = "check" /\ op[p] = "ids"
    /\ resp' = [resp EXCEPT ![p] =
                  IF coll[p] \in collections
                  THEN [NoResp EXCEPT !.status = "ok",
                                      !.total = Len(sorted(members(coll[p]) \cap Companies)),
                                      !.companies = sorted(members(coll[p]) \cap Companies)]
                  ELSE [NoResp EXCEPT !.status = "notfound"]]
    /\ pc' = [pc EXCEPT ![p] = "done"]
    /\ UNCHANGED <<collections, rows, op, coll, ids, existing, todo, pending,
                   newly, processed, events, pre, touched, raced, prev>>

\* ------------------------------------------------------------ the streams
\* (mutant) the stream opens without its start event
stream_start_silent(p) ==
    /\ pc[p] = "gen"
    /\ resp' = [resp EXCEPT ![p] = [NoResp EXCEPT !.status = "stream"]]
    /\ IF todo[p] = <<>>
       THEN /\ events' = [events EXCEPT ![p] = <<Event("complete", 0, 0)>>]
            /\ pc' = [pc EXCEPT ![p] = "done"]
       ELSE /\ events' = events
            /\ pc' = [pc EXCEPT ![p] = "loop"]
    /\ UNCHANGED <<collections, rows, op, coll, ids, existing, todo, pending,
                   newly, processed, pre, touched, raced, prev>>

\* progress_stream() up to its first yield: the lone complete event when
\* there is nothing to process, the start event otherwise.
stream_start(p) ==
    /\ pc[p] = "gen"
    /\ resp' = [resp EXCEPT ![p] = [NoResp EXCEPT !.status = "stream"]]
    /\ IF todo[p] = <<>>
       THEN /\ events' = [events EXCEPT ![p] = <<Event("complete", 0, 0)>>]
            /\ pc' = [pc EXCEPT ![p] = "done"]
       ELSE /\ events' = [events EXCEPT ![p] = <<Event("start", 0, 0)>>]
            /\ pc' = [pc EXCEPT ![p] = "loop"]
    /\ UNCHANGED <<collections, rows, op, coll, ids, existing, todo, pending,
                   newly, processed, pre, touched, raced, prev>>

\* progress_stream() after its loop: the complete event.
stream_complete(p) ==
    /\ pc[p] = "complete"
    /\ events' = [events EXCEPT ![p] =
                    Append(@, Event("complete", processed[p], newly[p]))]
    /\ pc' = [pc EXCEPT ![p] = "done"]
    /\ UNCHANGED <<collections, rows, op, coll, ids, existing, todo, pending,
                   newly, processed, resp, pre, touched, raced, prev>>

\* The response (or the end of the stream) has reached the client and the
\* request's session is closed.
Return(p) ==
    /\ pc[p] = "done"
    /\ pc' = [pc EXCEPT ![p] = "idle"]
    /\ op' = [op EXCEPT ![p] = "none"]
    /\ coll' = [coll EXCEPT ![p] = Ghost]
    /\ ids' = [ids EXCEPT ![p] = <<>>]
    /\ existing' = [existing EXCEPT ![p] = {}]
    /\ todo' = [todo EXCEPT ![p] = <<>>]
    /\ pending' = [pending EXCEPT ![p] = {}]
    /\ newly' = [newly EXCEPT ![p] = 0]
    /\ processed' = [processed EXCEPT ![p] = 0]
    /\ events' = [events EXCEPT ![p] = <<>>]
    /\ resp' = [resp EXCEPT ![p] = NoResp]
    /\ touched' = [touched EXCEPT ![p] = {}]
    /\ raced' = [raced EXCEPT ![p] = {}]
    /\ prev' = [prev EXCEPT ![p] = NoPrev]
    /\ pre' = [pre EXCEPT ![p] = EmptyTable]
    /\ UNCHANGED <<collections, rows>>

\* ------------------------------------------------------- specifications
Step(p) ==
    \/ add_check(p)
    \/ like_check(p)
    \/ toggle_check(p)
    \/ get_company_collection_by_id_count(p)
    \/ get_company_collection_by_id(p)
    \/ get_collection_company_ids(p)
    \/ stream_start(p)
    \/ \E ok \in BOOLEAN : loop_query(p, ok)
    \/ \E ok \in BOOLEAN : loop_commit(p, ok)
    \/ \E ok \in BOOLEAN : batch_commit(p, ok)
    \/ count(p)
    \/ stream_complete(p)
    \/ Return(p)

\* Concurrent clients: any interleaving of the requests' statements.
Next ==
    \E p \in Procs :
        \/ /\ pc[p] = "idle"
           /\ \E o \in Ops : \E c \in TargetsOf(o), r \in BodiesOf(o, RequestsConc) :
                 Begin(p, o, c, r)
        \/ Step(p)

Spec == Init /\ [][Next]_vars

\* One client: each request runs to its end before the next begins.
NextSeq ==
    \/ /\ pc[1] = "idle"
       /\ \E o \in Ops : \E c \in TargetsOf(o), r \in BodiesOf(o, RequestsAlone) :
             BeginAlone(1, o, c, r)
    \/ /\ pc[1] = "done"
       /\ \E o \in Ops : BeginAgain(1, o)
    \/ Step(1)

SpecSeq == Init /\ [][NextSeq]_vars

\* ------------------------------------------------------------------ claims
Done(p) == pc[p] = "done"
Returned(p) == Done(p) /\ resp[p].status = "ok"
EventTypes(p) == [i \in 1 .. Len(events[p]) |-> events[p][i].type]

\* C1: in every reachable state, under any interleaving of concurrent
\* requests, there is at most one membership row for any (collection,
\* company) pair.
C1_AtMostOneRowPerPair == \A x \in DOMAIN rows : rows[x] <= 1

\* Two requests have raced on one pair: q has committed the row that p, having
\* read the pair as absent, is about to insert.
C1_Witness ==
    \E p, q \in Procs :
        /\ p # q
        /\ pc[p] \in {"write", "commit"}
        /\ pc[q] # "idle"
        /\ Inserting(p)
        /\ coll[q] = coll[p]
        /\ todo[p] # <<>>
        /\ Head(todo[p]) \in touched[q]
        /\ rows[<<coll[p], Head(todo[p])>>] = 1

\* The ids of a request are all companies of the directory.
AllCompaniesExist(p) == SetOf(ids[p]) \subseteq Companies

\* The collections the endpoint needs exist.
TargetExists(p) ==
    IF op[p] \in LikeOps \cup UnlikeOps
    THEN MyList \in collections /\ Liked \in collections
    ELSE coll[p] \in collections

\* C2: reconcile-add on an existing collection with 0 members and a request
\* list that repeats an existing company id succeeds: added is the number of
\* distinct ids and the members afterwards are exactly the distinct ids.
C2_RepeatedIdIsDeduplicated ==
    \A p \in Procs :
        (/\ Done(p) /\ op[p] = "add"
         /\ TargetExists(p) /\ AllCompaniesExist(p)
         /\ Len(ids[p]) > Cardinality(SetOf(ids[p]))
         /\ row_sum(pre[p], coll[p], AllIds) = 0)
        => /\ resp[p].status # "notfound"
           /\ resp[p].status = "ok" =>
                 /\ resp[p].changed = Cardinality(SetOf(ids[p]))
                 /\ members(coll[p]) = SetOf(ids[p])

\* C3: for add, like and unlike, sync and streaming: if the target collection
\* does not exist or a requested id is no existing company, the request ends
\* in NotFound and the membership relation is what it was before the request.
C3_NotFoundBeforeAnyMutation ==
    \A p \in Procs :
        (/\ op[p] \in AddOps \cup LikeOps \cup UnlikeOps
         /\ ~(TargetExists(p) /\ AllCompaniesExist(p)))
        => /\ rows = pre[p]
           /\ touched[p] = {}
           /\ events[p] = <<>>
           /\ Done(p) => resp[p].status = "notfound"

\* A streaming like of a missing id together with a company that exists and
\* is not liked yet has ended in NotFound, while the table holds rows.
C3_Witness ==
    \E p \in Procs :
        /\ Done(p) /\ op[p] = "like_stream"
        /\ TargetExists(p)
        /\ MissingId \in SetOf(ids[p])
        /\ \E k \in SetOf(ids[p]) \cap Companies : rows[<<Liked, k>>] = 0
        /\ resp[p].status = "notfound"
        /\ count_rows(Liked) > 0

\* C4: every reconcile-add call that returns a result has already_existed +
\* newly_added equal to the number of requested ids that are found, on the
\* early return and on the return after the loop.
C4_CountsAddUp ==
    \A p \in Procs :
        (Returned(p) /\ op[p] = "add")
        => resp[p].already + resp[p].changed
             = Cardinality({i \in 1 .. Len(ids[p]) : ids[p][i] \in Companies})

\* A reconcile-add has returned after its loop, with ids of both kinds.
C4_Witness ==
    \E p \in Procs :
        /\ Returned(p) /\ op[p] = "add"
        /\ resp[p].already > 0
        /\ resp[p].changed > 0

\* C5: reconcile-add called twice in succession with the same arguments:
\* the second call returns newly_added = 0 and the first call's total, and
\* leaves the membership relation as the first call left it.
C5_AddIsIdempotent ==
    \A p \in Procs :
        (/\ Done(p) /\ op[p] = "add"
         /\ prev[p].op = "add" /\ prev[p].resp.status = "ok")
        => /\ resp[p].status = "ok"
           /\ resp[p].changed = 0
           /\ resp[p].total = prev[p].resp.total
           /\ rows = pre[p]

\* The second of two equal reconcile-adds has returned; the first added rows.
C5_Witness ==
    \E p \in Procs :
        /\ Returned(p) /\ op[p] = "add"
        /\ prev[p].op = "add" /\ prev[p].resp.status = "ok"
        /\ prev[p].resp.changed > 1

\* C6: two consecutive toggles of one pair restore the membership relation,
\* and each call's is_in_collection tells whether the pair is a member after
\* that call.
C6_ToggleIsItsOwnInverse ==
    \A p \in Procs :
        (Returned(p) /\ op[p] = "toggle")
        => /\ resp[p].flag = (ids[p][1] \in members(coll[p]))
           /\ (prev[p].op = "toggle" /\ prev[p].resp.status = "ok")
                 => rows = prev[p].pre

\* The second of two toggles has returned, for a pair that was a member.
C6_Witness ==
    \E p \in Procs :
        /\ Returned(p) /\ op[p] = "toggle"
        /\ prev[p].op = "toggle" /\ prev[p].resp.status = "ok"
        /\ prev[p].pre[<<coll[p], ids[p][1]>>] = 1
        /\ resp[p].flag

\* The table t with the rows of collection c for the companies S removed.
Without(t, c, S) == [x \in DOMAIN t |->
                       IF x[1] = c /\ x[2] \in S THEN 0 ELSE t[x]]

\* A bulk-unlike that returned, called right after a bulk-like of the same
\* ids that returned.
UnlikeAfterLike(p) ==
    /\ Returned(p) /\ op[p] = "unlike"
    /\ prev[p].op = "like" /\ prev[p].resp.status = "ok"

\* C7 as stated: for any initial liked set, bulk-like followed by bulk-unlike
\* of the same ids leaves the liked collection's membership and count as they
\* were before the like.
C7_LikeThenUnlikeRestores ==
    \A p \in Procs : UnlikeAfterLike(p) => rows = prev[p].pre

\* C7 amended: bulk-like followed by bulk-unlike of the same ids leaves the
\* liked collection with its members of before the like minus the requested
\* ids, so it is restored exactly when no requested id was liked before.
C7_LikeThenUnlikeRemovesRequested ==
    \A p \in Procs :
        UnlikeAfterLike(p)
        => /\ rows = Without(prev[p].pre, Liked, SetOf(ids[p]))
           /\ (\A k \in SetOf(ids[p]) : prev[p].pre[<<Liked, k>>] = 0)
                 => /\ rows = prev[p].pre
                    /\ resp[p].total = row_sum(prev[p].pre, Liked, AllIds)

\* Like then unlike of ids none of which was liked before, beside a liked
\* company that was not requested.
C7_Witness ==
    \E p \in Procs :
        /\ UnlikeAfterLike(p)
        /\ ids[p] # <<>>
        /\ \A k \in SetOf(ids[p]) : prev[p].pre[<<Liked, k>>] = 0
        /\ resp[p].total > 0

\* C8: a bulk-like that returns reports as already_liked the requested ids
\* that were liked before the call and as newly_liked those that were not;
\* total_liked is the count before plus newly_liked, and an id liked before
\* gets no second row.
C8_LikeCounts ==
    \A p \in Procs :
        (Returned(p) /\ op[p] = "like")
        => /\ resp[p].already
                = Cardinality({k \in SetOf(ids[p]) : pre[p][<<Liked, k>>] > 0})
           /\ resp[p].changed
                = Cardinality({k \in SetOf(ids[p]) : pre[p][<<Liked, k>>] = 0})
           /\ resp[p].total = row_sum(pre[p], Liked, AllIds) + resp[p].changed
           /\ \A k \in AllIds :
                 pre[p][<<Liked, k>>] > 0 => rows[<<Liked, k>>] = pre[p][<<Liked, k>>]

\* A bulk-like has returned for ids of which one was liked and one was not.
C8_Witness ==
    \E p \in Procs :
        /\ Returned(p) /\ op[p] = "like"
        /\ resp[p].already > 0
        /\ resp[p].changed > 0

\* The ids a stream has to process, as its handler computed them.
Work(p) ==
    IF op[p] = "add_stream" THEN new_company_ids(ids[p], existing[p])
    ELSE IF op[p] = "like_stream" THEN companies_to_like(ids[p], existing[p])
    ELSE companies_to_unlike(ids[p], existing[p])

\* A stream that has ended without an error event.
StreamEnded(p) ==
    /\ Done(p) /\ op[p] \in StreamOps /\ resp[p].status = "stream"
    /\ \A i \in 1 .. Len(events[p]) : events[p][i].type # "error"

\* start, one progress per processed id, complete
FullSequence(p) ==
    /\ Len(events[p]) = processed[p] + 2
    /\ events[p][1].type = "start"
    /\ events[p][Len(events[p])].type = "complete"
    /\ \A i \in 2 .. Len(events[p]) - 1 :
          events[p][i].type = "progress" /\ events[p][i].processed = i - 1

\* C9 as stated: every stream without an error emits start, one progress
\* event per processed id and complete, processed + 2 events, also when
\* none of its ids needs a change (stated here for the requests that name
\* at least one id).
C9_StartProgressComplete ==
    \A p \in Procs : (StreamEnded(p) /\ ids[p] # <<>>) => FullSequence(p)

\* C9 amended: a stream without an error that has ids to process emits
\* start, one progress event per processed id and complete, processed + 2
\* events; one whose ids all need no change emits the complete event alone.
C9_StartProgressCompleteIfWork ==
    \A p \in Procs :
        StreamEnded(p)
        => IF Work(p) = {}
           THEN EventTypes(p) = <<"complete">> /\ processed[p] = 0
           ELSE FullSequence(p) /\ processed[p] = Cardinality(Work(p))

\* A stream has ended after processing two ids.
C9_Witness ==
    \E p \in Procs :
        /\ StreamEnded(p)
        /\ processed[p] >= 2
        /\ Len(events[p]) = processed[p] + 2

\* C10: in a stream the first failure yields an error event that is the last
\* event: the stream has ended, the failed id and the ids after it are not
\* processed, and the rows committed for the ids before it are as committed.
C10_ErrorEndsStream ==
    \A p \in Procs :
        \A i \in 1 .. Len(events[p]) :
            events[p][i].type = "error"
            => /\ i = Len(events[p])
               /\ Done(p)
               /\ todo[p] # <<>>
               /\ i = processed[p] + 2
               /\ touched[p] \cap SetOf(todo[p]) = {}
               /\ \A x \in DOMAIN rows :
                     rows[x] = IF x[1] = coll[p] /\ x[2] \in touched[p]
                               THEN (IF op[p] = "unlike_stream" THEN 0 ELSE 1)
                               ELSE pre[p][x]

\* A stream has failed at its second id, after committing the first.
C10_Witness ==
    \E p \in Procs :
        /\ Done(p) /\ op[p] = "add_stream"
        /\ events[p] # <<>>
        /\ events[p][Len(events[p])].type = "error"
        /\ touched[p] # {}
        /\ count_rows(coll[p]) > row_sum(pre[p], coll[p], AllIds)

\* The table t with one more row of collection c for every company of S.
With(t, c, S) == [x \in DOMAIN t |->
                    IF x[1] = c /\ x[2] \in S THEN t[x] + 1 ELSE t[x]]

\* sorted(new_company_ids) of a reconcile-add past its checks
SortedToAdd(p) == sorted(new_company_ids(ids[p], existing[p]))

\* C11: synchronous reconcile-add commits each inserted row before it
\* processes the next id: when processing fails at the k-th id of
\* sorted(to_add) the request aborts with an error and the rows of the first
\* k-1 ids are in the table.
C11_AddKeepsCommittedRows ==
    \A p \in Procs :
        (op[p] = "add" /\ pc[p] \in {"loop", "write", "count", "done"}
         /\ resp[p].status # "notfound")
        => LET done == {SortedToAdd(p)[i] : i \in 1 .. processed[p]}
           IN /\ rows = With(pre[p], coll[p], done)
              /\ (Done(p) /\ resp[p].status = "error")
                    => /\ todo[p] # <<>>
                       /\ Head(todo[p]) = SortedToAdd(p)[processed[p] + 1]
                       /\ touched[p] = done

\* A reconcile-add has failed at its second id: the row of the first is there.
C11_Witness ==
    \E p \in Procs :
        /\ Done(p) /\ op[p] = "add" /\ resp[p].status = "error"
        /\ processed[p] = 1
        /\ Len(todo[p]) = 1
        /\ rows[<<coll[p], SortedToAdd(p)[1]>>] = 1
        /\ rows[<<coll[p], Head(todo[p])>>] = 0

\* the endpoints whose path carries a collection id
CollectionIdOps == AddOps \cup {"toggle"} \cup ReadOps

\* C12: every operation that takes a collection id, the members page
\* included, answers NotFound when that collection does not exist, and with
\* no other failure.
C12_MissingCollectionIsNotFound ==
    \A p \in Procs :
        (Done(p) /\ op[p] \in CollectionIdOps /\ coll[p] \notin collections)
        => resp[p].status = "notfound"

\* The ids whose insert or delete the loop of a failed bulk like or unlike
\* had issued before the failure: a like fails only at the commit after its
\* loop, which has then added every id; an unlike has deleted the ids it found.
Handled(p) ==
    IF op[p] = "unlike" THEN pending[p] ELSE SetOf(todo[p])

\* The ids a per-item commit would have committed before the failure: all
\* that were handled when the failure is in the loop, at the next id; all
\* but the last when it is the commit after the loop that fails.
CommittedPerItem(p) ==
    IF op[p] = "unlike" /\ todo[p] # <<>> THEN Handled(p)
    ELSE {k \in Handled(p) : \E b \in Handled(p) : k < b}

\* C13 (as stated): synchronous bulk like and bulk unlike commit each insert
\* or delete before the next id is processed, so that a failure at the k-th
\* id leaves the changes of the first k-1 ids persisted.
C13_PerItemCommit ==
    \A p \in Procs :
        (Done(p) /\ op[p] \in {"like", "unlike"} /\ resp[p].status = "error")
        => \A k \in CommittedPerItem(p) :
              rows[<<Liked, k>>] = (IF op[p] = "like" THEN 1 ELSE 0)

\* C13 (amended): synchronous bulk like and bulk unlike commit once, after
\* the loop: while the loop runs the table is as it was when the request
\* began, a failure in the loop or of the commit persists none of the
\* request's changes, and a commit that succeeds persists all of them.
C13_OneCommitAllOrNothing ==
    \A p \in Procs :
        (op[p] \in {"like", "unlike"} /\ pc[p] # "check"
         /\ resp[p].status # "notfound")
        => LET work == IF op[p] = "like"
                       THEN companies_to_like(ids[p], existing[p])
                       ELSE companies_to_unlike(ids[p], existing[p])
           IN /\ pc[p] \in {"loop", "commit"} => rows = pre[p]
              /\ (Done(p) /\ resp[p].status = "error")
                    => rows = pre[p] /\ touched[p] = {}
              /\ (pc[p] = "count" \/ Returned(p))
                    => /\ touched[p] = work
                       /\ rows = IF op[p] = "like" THEN With(pre[p], Liked, work)
                                                   ELSE Without(pre[p], Liked, work)

\* A bulk unlike has failed at its second id: the first, whose delete the
\* loop had issued, is still liked.
C13_Witness ==
    \E p \in Procs :
        /\ Done(p) /\ op[p] = "unlike" /\ resp[p].status = "error"
        /\ processed[p] = 1
        /\ todo[p] # <<>>
        /\ pending[p] # {}
        /\ \A k \in pending[p] : rows[<<Liked, k>>] = 1

\* the progress events a stream has yielded so far
ProgressEvents(p) == SelectSeq(events[p], LAMBDA e : e.type = "progress")

\* C14: reconcile-add and reconcile-add-stream process to_add in ascending
\* numeric id order: in every intermediate state of a request the ids it has
\* inserted are the smallest ids of to_add and the ids still to come follow
\* in ascending order, and the stream has yielded its i-th progress event
\* once the i-th smallest id is handled and before the next one is touched.
C14_AscendingPrefix ==
    \A p \in Procs :
        (op[p] \in AddOps /\ pc[p] \notin {"idle", "check"}
         /\ resp[p].status # "notfound")
        => LET to_add == new_company_ids(ids[p], existing[p])
               inserted == {k \in to_add :
                              rows[<<coll[p], k>>] > pre[p][<<coll[p], k>>]}
           IN /\ inserted = touched[p]
              /\ Cardinality(inserted) = processed[p]
              /\ SetOf(todo[p]) = to_add \ inserted
              /\ \A a \in inserted : \A b \in to_add \ inserted : a < b
              /\ \A i \in 1 .. Len(todo[p]) : \A j \in 1 .. Len(todo[p]) :
                    i < j => todo[p][i] < todo[p][j]
              /\ IsStream(p)
                    => /\ Len(ProgressEvents(p)) = processed[p]
                       /\ \A i \in 1 .. processed[p] :
                             /\ ProgressEvents(p)[i].processed = i
                             /\ ProgressEvents(p)[i].newly = i

\* A reconcile-add-stream of two new ids is between them: the smaller is
\* inserted and reported by one progress event, the larger is not yet touched.
C14_Witness ==
    \E p \in Procs :
        /\ op[p] = "add_stream" /\ pc[p] = "loop"
        /\ processed[p] = 1 /\ Len(todo[p]) = 1
        /\ touched[p] # {}
        /\ \A k \in touched[p] : k < Head(todo[p]) /\ rows[<<coll[p], k>>] = 1
        /\ rows[<<coll[p], Head(todo[p])>>] = 0
        /\ EventTypes(p) = <<"start", "progress">>

\* the collection a request writes to
Target(p) == IF op[p] \in LikeOps \cup UnlikeOps THEN Liked ELSE coll[p]

\* C15: frame. A step changes a membership row only when it is the write of
\* a request, and then only rows (c, id) where c is that request's target
\* collection (the liked collection for bulk like and unlike) and id is one
\* of its requested company ids; rows of every other collection, "My List"
\* included, and of every other company stay as they are, and the set of
\* collections never changes.
C15_Frame ==
    [][ /\ collections' = collections
        /\ \A x \in DOMAIN rows :
              rows'[x] # rows[x]
              => \E p \in Procs :
                    /\ pc[p] \in {"write", "commit"}
                    /\ pc'[p] # pc[p]
                    /\ op[p] \in SyncOps \cup StreamOps
                    /\ x[1] = Target(p)
                    /\ x[2] \in SetOf(ids[p]) ]_vars

\* A bulk like has inserted its rows while "My List" has members and the
\* liked list holds a company the request did not name.
C15_Witness ==
    \E p \in Procs :
        /\ Done(p) /\ op[p] = "like" /\ touched[p] # {}
        /\ members(MyList) # {}
        /\ members(Liked) \ SetOf(ids[p]) # {}
        /\ \A k \in touched[p] : rows[<<Liked, k>>] = 1
====
